---- MODULE Spec2Model ----
(***************************************************************************)
(* Model of app.py: the script classifier (detect_script_with_confidence), *)
(* the two-pass OCR selector (ocr_image_with_smart_lang, /api/ocr), the    *)
(* transliteration resolver (perform_transliteration, /api/transliterate)  *)
(* and the /api/detect route.                                              *)
(*                                                                         *)
(* A string is a sequence of Unicode code points.  A Python tuple is a    *)
(* TLA+ tuple, so the length of what detect returns is part of the model. *)
(* A dict is the sequence of its (key, value) items in insertion order.   *)
(* A float quotient a / b is the fraction <<a, b>> in lowest terms.       *)
(***************************************************************************)
EXTENDS Integers, Sequences, FiniteSets, TLC

\* Longest text sent to /api/detect and /api/transliterate.
MaxLen == 3
\* Longest raw string an OCR pass returns.
MaxOcrLen == 2
\* Longest string the transliteration backend returns.
MaxOutLen == 1

\* Code points used in texts: U+097F (last of the Devanagari block),
\* U+0980 (first of the Bengali block), U+0BA4 (Tamil), "a", "1", " ".
Chars == {2431, 2432, 2980, 97, 49, 32}

RECURSIVE TextsUpTo(_)
TextsUpTo(n) ==
    IF n = 0 THEN {<<>>}
    ELSE LET shorter == TextsUpTo(n - 1)
         IN  shorter \cup {Append(t, c) : t \in {s \in shorter : Len(s) = n - 1}, c \in Chars}

Texts == TextsUpTo(MaxLen)
OcrTexts == TextsUpTo(MaxOcrLen)
OutTexts == TextsUpTo(MaxOutLen)

\* UNICODE_RANGES: (character class, script name) in declaration order.
UNICODE_RANGES ==
    << [pattern |-> {<<2304, 2431>>}, scriptname |-> "Devanagari"],
       [pattern |-> {<<2432, 2559>>}, scriptname |-> "Bengali"],
       [pattern |-> {<<2560, 2687>>}, scriptname |-> "Gurmukhi"],
       [pattern |-> {<<2688, 2815>>}, scriptname |-> "Gujarati"],
       [pattern |-> {<<2816, 2943>>}, scriptname |-> "Oriya"],
       [pattern |-> {<<2944, 3071>>}, scriptname |-> "Tamil"],
       [pattern |-> {<<3072, 3199>>}, scriptname |-> "Telugu"],
       [pattern |-> {<<3200, 3327>>}, scriptname |-> "Kannada"],
       [pattern |-> {<<3328, 3455>>}, scriptname |-> "Malayalam"],
       [pattern |-> {<<3456, 3583>>}, scriptname |-> "Sinhala"],
       [pattern |-> {<<65, 90>>, <<97, 122>>}, scriptname |-> "ISO"] >>

ScriptNames == {UNICODE_RANGES[i].scriptname : i \in DOMAIN UNICODE_RANGES}

\* TESS_LANG_SUGGEST: detected script -> tesseract language code.
TESS_LANG_SUGGEST ==
    [s \in ScriptNames |->
        CASE s = "Devanagari" -> "hin"
          [] s = "Bengali"    -> "ben"
          [] s = "Gurmukhi"   -> "pan"
          [] s = "Gujarati"   -> "guj"
          [] s = "Oriya"      -> "ori"
          [] s = "Tamil"      -> "tam"
          [] s = "Telugu"     -> "tel"
          [] s = "Kannada"    -> "kan"
          [] s = "Malayalam"  -> "mal"
          [] s = "Sinhala"    -> "sin"
          [] s = "ISO"        -> "eng"]

\* A suggestion that knows one OCR language only: "hin" for every script
\* other than ISO.
SuggestLangHindiOnly(detected) ==
    IF detected = "ISO" THEN "eng" ELSE "hin"

\* TESS_LANG_SUGGEST.get(detected, "eng")
SuggestLang(detected) ==
    IF detected \in DOMAIN TESS_LANG_SUGGEST THEN TESS_LANG_SUGGEST[detected] ELSE "eng"

----------------------------------------------------------------------------
\* Strings

\* Code points str.strip() removes (str.isspace), Basic Multilingual Plane.
IsSpace(c) ==
    c \in (9..13) \cup (28..32) \cup {133, 160, 5760} \cup (8192..8202)
          \cup {8232, 8233, 8239, 8287, 12288}

RECURSIVE lstrip(_)
lstrip(s) == IF s # <<>> /\ IsSpace(Head(s)) THEN lstrip(Tail(s)) ELSE s

RECURSIVE rstrip(_)
rstrip(s) ==
    IF s # <<>> /\ IsSpace(s[Len(s)]) THEN rstrip(SubSeq(s, 1, Len(s) - 1)) ELSE s

\* str.strip()
strip(s) == rstrip(lstrip(s))

\* len(pattern.findall(text)) for a one-character class
FindallCount(pattern, text) ==
    Cardinality({i \in DOMAIN text : \E r \in pattern : r[1] <= text[i] /\ text[i] <= r[2]})

----------------------------------------------------------------------------
\* Dicts as item sequences

\* counts.get(key, 0)
DictGet(items, key) ==
    IF \E i \in DOMAIN items : items[i][1] = key
    THEN items[CHOOSE i \in DOMAIN items : items[i][1] = key][2]
    ELSE 0

\* counts[key] = value
DictSet(items, key, value) ==
    IF \E i \in DOMAIN items : items[i][1] = key
    THEN [i \in DOMAIN items |-> IF items[i][1] = key THEN <<key, value>> ELSE items[i]]
    ELSE Append(items, <<key, value>>)

\* max(counts.items(), key=lambda kv: kv[1]) but keeping the LAST maximal item.
RECURSIVE MaxItemLast(_)
MaxItemLast(items) ==
    IF Len(items) = 1 THEN items[1]
    ELSE LET best == MaxItemLast(SubSeq(items, 1, Len(items) - 1))
             last == items[Len(items)]
         IN  IF last[2] >= best[2] THEN last ELSE best

\* max(counts.items(), key=lambda kv: kv[1]): the first item, in iteration
\* order, whose key is maximal.
RECURSIVE MaxItemFrom(_, _, _)
MaxItemFrom(items, i, best) ==
    IF i > Len(items) THEN best
    ELSE MaxItemFrom(items, i + 1, IF items[i][2] > best[2] THEN items[i] ELSE best)

MaxItem(items) == MaxItemFrom(items, 2, items[1])

----------------------------------------------------------------------------
\* Floats

RECURSIVE GCD(_, _)
GCD(a, b) == IF b = 0 THEN a ELSE GCD(b, a % b)

\* top_count / total_matched if total_matched > 0 else 0.0
Confidence(top_count, total_matched) ==
    IF total_matched > 0
    THEN LET g == GCD(top_count, total_matched)
         IN  <<top_count \div g, total_matched \div g>>
    ELSE <<0, 1>>

----------------------------------------------------------------------------
\* detect_script_with_confidence

\* The for loop over UNICODE_RANGES from index i on: <<counts, total_matched>>.
RECURSIVE CountLoop(_, _, _, _)
CountLoop(text, i, counts, total_matched) ==
    IF i > Len(UNICODE_RANGES) THEN <<counts, total_matched>>
    ELSE LET found == FindallCount(UNICODE_RANGES[i].pattern, text)
             scriptname == UNICODE_RANGES[i].scriptname
         IN  IF found > 0
             THEN CountLoop(text, i + 1,
                            DictSet(counts, scriptname, DictGet(counts, scriptname) + found),
                            total_matched + found)
             ELSE CountLoop(text, i + 1, counts, total_matched)

\* The returned tuple: four elements on the two early returns, five otherwise.
detect_script_with_confidence(text) ==
    IF text = <<>> THEN <<"ISO", 0, 0, <<>>>>
    ELSE LET loop == CountLoop(text, 1, <<>>, 0)
             counts == loop[1]
             total_matched == loop[2]
         IN  IF counts = <<>> THEN <<"ISO", 0, 0, <<>>>>
             ELSE LET top == MaxItem(counts)
                  IN  <<top[1], top[2], total_matched, counts,
                        Confidence(top[2], total_matched)>>

\* a, b, c, d, e = <tuple>: succeeds only on a tuple of exactly five elements.
Unpacks5(tuple) == Len(tuple) = 5

----------------------------------------------------------------------------
\* State

VARIABLES
    pytesseract,     \* TRUE iff "import pytesseract" succeeded
    aksha_process,   \* TRUE iff aksharamukha's process was imported
    pc,              \* "idle", "done", or the backend call /api/ocr waits in
    request,         \* the request being (or last) handled
    pass1,           \* first OCR call: "none", "returned", "raised"
    raw0,            \* what the first OCR call returned, before strip()
    txt0,            \* local txt0 of ocr_image_with_smart_lang
    detected,        \* local detected
    breakdown,       \* local breakdown
    suggested_lang,  \* local suggested_lang
    pass2,           \* second OCR call: "none", "returned", "raised"
    raw1,            \* what the second OCR call returned, before strip()
    txt1,            \* local txt1
    res,             \* outcome of ocr_image_with_smart_lang
    ocrCalls,        \* lang arguments of the image_to_string calls of this request
    akshaCalls,      \* arguments of the aksha_process calls of this request
    akshaReply,      \* what aksha_process did on its last call
    response         \* the HTTP response of the last finished request

ocrLocals == <<pass1, raw0, txt0, detected, breakdown, suggested_lang, pass2, raw1, txt1, res>>
akshaLocals == <<akshaCalls, akshaReply>>
vars == <<pytesseract, aksha_process, pc, request, ocrLocals, ocrCalls, akshaLocals, response>>

\* Number of phrasebook requests in flight together.
MaxRequests == 3

VARIABLES
    file,      \* phrasebooks.json: [state, items]; state is "json" when the
               \* content parses, "empty" right after open(.., "w") truncated
               \* it, "corrupt" when two writers' bytes are mixed
    file0,     \* the items of phrasebooks.json when the server started
    tpc,       \* per request: "new", "open", "dump", "done"
    treq,      \* per request: what was asked
    tlocal,    \* per request: the list it is about to write (pb / new)
    pbLog      \* the phrasebook responses, in the order they were sent

pbVars == <<file, file0, tpc, treq, tlocal, pbLog>>
allVars == <<vars, pbVars>>

Requests == 1..MaxRequests

\* PHRASEBOOK_FILE as the server finds it: the [] written at start-up or a
\* list with a record saved earlier.
PbInit ==
    /\ file0 \in {<<>>, <<[id |-> 0]>>}
    /\ file = [state |-> "json", items |-> file0]
    /\ tpc = [r \in Requests |-> "new"]
    /\ treq = [r \in Requests |-> [kind |-> "none"]]
    /\ tlocal = [r \in Requests |-> <<>>]
    /\ pbLog = <<>>

NoResponse == [kind |-> "none"]
NoRes == [kind |-> "none"]
NoReply == [raised |-> FALSE, text |-> <<>>, called |-> FALSE]

\* jsonify(...) with its status code
Json(status, body) == [kind |-> "json", status |-> status, body |-> body]

\* An exception no handler of the route catches: Flask answers 500.
Unhandled(exception) == [kind |-> "exception", status |-> 500, exception |-> exception]

\* What a call to pytesseract.image_to_string can do.
OcrReplies ==
    {[raised |-> FALSE, text |-> t] : t \in OcrTexts} \cup {[raised |-> TRUE, text |-> <<>>]}

\* What a call to aksha_process can do.
AkshaReplies ==
    {[raised |-> FALSE, text |-> t, called |-> TRUE] : t \in OutTexts}
        \cup {[raised |-> TRUE, text |-> <<>>, called |-> TRUE]}

\* Values the src and tgt fields of a /api/transliterate request take here.
SrcScripts == {"ISO", "Devanagari", "Tamil"}
TgtScripts == {"Tamil", "ISO"}

\* request.files / Image.open: no file, an unreadable file, a readable image.
Images == {"missing", "invalid", "valid"}

ResetOcr ==
    /\ pass1' = "none"
    /\ raw0' = <<>>
    /\ txt0' = <<>>
    /\ detected' = ""
    /\ breakdown' = <<>>
    /\ suggested_lang' = ""
    /\ pass2' = "none"
    /\ raw1' = <<>>
    /\ txt1' = <<>>
    /\ res' = NoRes
    /\ ocrCalls' = <<>>

ResetAksha ==
    /\ akshaCalls' = <<>>
    /\ akshaReply' = NoReply

Init ==
    /\ pytesseract \in BOOLEAN
    /\ aksha_process \in BOOLEAN
    /\ pc = "idle"
    /\ request = [route |-> "none"]
    /\ pass1 = "none"
    /\ raw0 = <<>>
    /\ txt0 = <<>>
    /\ detected = ""
    /\ breakdown = <<>>
    /\ suggested_lang = ""
    /\ pass2 = "none"
    /\ raw1 = <<>>
    /\ txt1 = <<>>
    /\ res = NoRes
    /\ ocrCalls = <<>>
    /\ akshaCalls = <<>>
    /\ akshaReply = NoReply
    /\ response = NoResponse
    /\ PbInit

----------------------------------------------------------------------------
\* /api/detect

DetectResponse(text) ==
    LET r == detect_script_with_confidence(text)
    IN  IF Unpacks5(r)
        THEN Json(200, [ok |-> TRUE, script |-> r[1], top_count |-> r[2],
                        total_matched |-> r[3], breakdown |-> r[4], confidence |-> r[5]])
        ELSE Unhandled("ValueError")

ApiDetect ==
    /\ pc = "idle"
    /\ \E text \in Texts :
          /\ request' = [route |-> "/api/detect", text |-> text]
          /\ response' = DetectResponse(text)
    /\ pc' = "done"
    /\ UNCHANGED <<pbVars, pytesseract, aksha_process, ocrLocals, ocrCalls, akshaLocals>>

----------------------------------------------------------------------------
\* ocr_image_with_smart_lang and /api/ocr

\* The if / elif / else after the second pass returned: used and final_text.
Select(t0, t1, lang) ==
    IF Len(t1) > Len(t0)
    THEN [used |-> lang, final_text |-> t1]
    ELSE IF strip(t1) # <<>> /\ strip(t0) = <<>>
         THEN [used |-> lang, final_text |-> t1]
         ELSE [used |-> "eng", final_text |-> t0]

\* The except branch of the second pass, but failing the request.
SecondPassFailedFatal(t0, det, bd) ==
    [kind |-> "return", ok |-> FALSE, error |-> "Tesseract OCR failed"]

\* The except branch of the second pass: used = "eng", final_text = txt0.
SecondPassFailed(t0, det, bd) ==
    [kind |-> "return", ok |-> TRUE, text |-> t0, used_lang |-> "eng",
     detected_script |-> det, breakdown |-> bd]

\* The dict ocr_image_with_smart_lang returns on success.
OcrOk(final_text, used, det, bd) ==
    [kind |-> "return", ok |-> TRUE, text |-> final_text, used_lang |-> used,
     detected_script |-> det, breakdown |-> bd]

\* api_ocr from "if not res.get('ok')" on; r is what the call of
\* ocr_image_with_smart_lang did.
ApiOcrRespond(r) ==
    IF r.kind = "raise" THEN Unhandled(r.exception)
    ELSE IF ~r.ok THEN Json(500, [ok |-> FALSE, error |-> r.error])
    ELSE LET d == detect_script_with_confidence(r.text)
         IN  IF Unpacks5(d)
             THEN Json(200, [ok |-> TRUE, text |-> r.text, used_lang |-> r.used_lang,
                             detected_script |-> r.detected_script,
                             breakdown |-> d[4], confidence |-> d[5]])
             ELSE Unhandled("ValueError")

\* api_ocr up to the first image_to_string call.
ApiOcr ==
    /\ pc = "idle"
    /\ \E image \in Images :
          /\ request' = [route |-> "/api/ocr", image |-> image]
          /\ IF image = "missing"
             THEN /\ response' = Json(400, [ok |-> FALSE, error |-> "No image uploaded"])
                  /\ pc' = "done"
             ELSE IF ~pytesseract
             THEN /\ response' = Json(500, [ok |-> FALSE,
                                            error |-> "pytesseract not installed on server"])
                  /\ pc' = "done"
             ELSE IF image = "invalid"
             THEN /\ response' = Json(400, [ok |-> FALSE, error |-> "Invalid image"])
                  /\ pc' = "done"
             ELSE /\ response' = NoResponse
                  /\ pc' = "ocr_pass1"
    /\ UNCHANGED <<pbVars, pytesseract, aksha_process, ocrLocals, ocrCalls, akshaLocals>>

\* ocr_image_with_smart_lang from its first image_to_string call up to the
\* second one, or to the end of api_ocr when there is none.
OcrPass1 ==
    /\ pc = "ocr_pass1"
    /\ \E reply \in OcrReplies :
          IF ~pytesseract
          THEN /\ res' = [kind |-> "return", ok |-> FALSE, error |-> "pytesseract not available"]
               /\ response' = ApiOcrRespond(res')
               /\ pc' = "done"
               /\ UNCHANGED <<pass1, raw0, txt0, detected, breakdown, suggested_lang, ocrCalls>>
          ELSE IF reply.raised
          THEN /\ ocrCalls' = Append(ocrCalls, "default")
               /\ pass1' = "raised"
               /\ res' = [kind |-> "return", ok |-> FALSE, error |-> "Tesseract initial OCR failed"]
               /\ response' = ApiOcrRespond(res')
               /\ pc' = "done"
               /\ UNCHANGED <<raw0, txt0, detected, breakdown, suggested_lang>>
          ELSE LET t0 == strip(reply.text)
                   d == detect_script_with_confidence(t0)
               IN  /\ ocrCalls' = Append(ocrCalls, "default")
                   /\ pass1' = "returned"
                   /\ raw0' = reply.text
                   /\ txt0' = t0
                   /\ IF ~Unpacks5(d)
                      THEN /\ res' = [kind |-> "raise", exception |-> "ValueError"]
                           /\ response' = ApiOcrRespond(res')
                           /\ pc' = "done"
                           /\ UNCHANGED <<detected, breakdown, suggested_lang>>
                      ELSE /\ detected' = d[1]
                           /\ breakdown' = d[4]
                           /\ suggested_lang' = SuggestLang(d[1])
                           /\ IF suggested_lang' # "eng"
                              THEN /\ pc' = "ocr_pass2"
                                   /\ UNCHANGED <<res, response>>
                              ELSE /\ res' = OcrOk(t0, "eng", d[1], d[4])
                                   /\ response' = ApiOcrRespond(res')
                                   /\ pc' = "done"
    /\ UNCHANGED <<pbVars, pytesseract, aksha_process, request, pass2, raw1, txt1, akshaLocals>>

\* ocr_image_with_smart_lang from its second image_to_string call on, and
\* the rest of api_ocr.
OcrPass2 ==
    /\ pc = "ocr_pass2"
    /\ \E reply \in OcrReplies :
          /\ ocrCalls' = Append(ocrCalls, suggested_lang)
          /\ IF reply.raised
             THEN /\ pass2' = "raised"
                  /\ res' = SecondPassFailed(txt0, detected, breakdown)
                  /\ UNCHANGED <<raw1, txt1>>
             ELSE LET t1 == strip(reply.text)
                      sel == Select(txt0, t1, suggested_lang)
                  IN  /\ pass2' = "returned"
                      /\ raw1' = reply.text
                      /\ txt1' = t1
                      /\ res' = OcrOk(sel.final_text, sel.used, detected, breakdown)
          /\ response' = ApiOcrRespond(res')
    /\ pc' = "done"
    /\ UNCHANGED <<pbVars, pytesseract, aksha_process, request, pass1, raw0, txt0, detected,
                   breakdown, suggested_lang, akshaLocals>>

----------------------------------------------------------------------------
\* perform_transliteration and /api/transliterate

\* The source script handed to the backend, with detection applied to any hint.
ResolveSourceAlways(src_script, d) ==
    IF d[1] # "ISO" THEN d[1] ELSE src_script

\* Lines "if src_script == 'ISO'" .. "src_script = detected", given the
\* tuple d that detect returned for the text (used only when the hint is ISO).
ResolveSource(src_script, d) ==
    IF src_script = "ISO"
    THEN IF d[1] # "ISO" THEN d[1] ELSE src_script
    ELSE src_script

\* api_transliterate with perform_transliteration inlined.
ApiTransliterate ==
    /\ pc = "idle"
    /\ \E text \in Texts, src \in SrcScripts, tgt \in TgtScripts, reply \in AkshaReplies :
          LET d == detect_script_with_confidence(text)
          IN  /\ request' = [route |-> "/api/transliterate", text |-> text,
                             src |-> src, tgt |-> tgt]
              /\ IF text = <<>>
                 THEN /\ response' = Json(400, [ok |-> FALSE, error |-> "Empty text"])
                      /\ UNCHANGED akshaLocals
                 ELSE IF ~aksha_process
                 THEN /\ response' = Json(500, [ok |-> FALSE,
                                                error |-> "Aksharamukha not available on server"])
                      /\ UNCHANGED akshaLocals
                 ELSE IF src = "ISO" /\ ~Unpacks5(d)
                 THEN /\ response' = Json(500, [ok |-> FALSE, error |-> "ValueError"])
                      /\ UNCHANGED akshaLocals
                 ELSE /\ akshaCalls' = <<<<ResolveSource(src, d), tgt, text>>>>
                      /\ akshaReply' = reply
                      /\ response' = IF reply.raised
                                     THEN Json(500, [ok |-> FALSE, error |-> "backend error"])
                                     ELSE Json(200, [ok |-> TRUE, result |-> reply.text])
    /\ pc' = "done"
    /\ UNCHANGED <<pbVars, pytesseract, aksha_process, ocrLocals, ocrCalls>>

----------------------------------------------------------------------------

\* The response is sent; the server waits for the next request.
Serve ==
    /\ pc = "done"
    /\ pc' = "idle"
    /\ request' = [route |-> "none"]
    /\ response' = NoResponse
    /\ ResetOcr
    /\ ResetAksha
    /\ UNCHANGED <<pbVars, pytesseract, aksha_process>>

Next ==
    \/ Serve
    \/ ApiDetect
    \/ ApiOcr
    \/ OcrPass1
    \/ OcrPass2
    \/ ApiTransliterate

Spec == Init /\ [][Next]_vars

----------------------------------------------------------------------------
\* Phrasebook store: /api/phrasebook/save and /api/phrasebook/delete, served
\* by concurrent threads, each reading and writing PHRASEBOOK_FILE.

\* load_phrasebooks: json.load of the file, [] on any exception.
load_phrasebooks(f) == IF f.state = "json" THEN f.items ELSE <<>>

\* pb.insert(0, item)
InsertFront(pb, item) == <<item>> \o pb

\* [it for it in pb if it["id"] != pid]
RECURSIVE Without(_, _)
Without(pb, pid) ==
    IF pb = <<>> THEN <<>>
    ELSE IF Head(pb).id # pid
         THEN <<Head(pb)>> \o Without(Tail(pb), pid)
         ELSE Without(Tail(pb), pid)

\* Identifiers a delete may name: the record found at start-up and the
\* records the requests may create.
Pids == 0..MaxRequests

\* api_phrasebook_save up to the call of save_phrasebooks.  The record's id
\* is a fresh uuid4: the request's own number.
PbSave ==
    \E r \in Requests, hasText \in BOOLEAN :
        /\ tpc[r] = "new"
        /\ treq' = [treq EXCEPT ![r] = [kind |-> "save", id |-> r, hasText |-> hasText]]
        /\ IF ~hasText
           THEN /\ tpc' = [tpc EXCEPT ![r] = "done"]
                /\ pbLog' = Append(pbLog, [req |-> r, kind |-> "save", id |-> r, status |-> 400])
                /\ UNCHANGED tlocal
           ELSE /\ tlocal' = [tlocal EXCEPT ![r] = InsertFront(load_phrasebooks(file), [id |-> r])]
                /\ tpc' = [tpc EXCEPT ![r] = "open"]
                /\ UNCHANGED pbLog
        /\ UNCHANGED <<file, file0, vars>>

\* api_phrasebook_delete up to the call of save_phrasebooks.
PbDelete ==
    \E r \in Requests, pid \in Pids :
        LET pb == load_phrasebooks(file)
            new == Without(pb, pid)
        IN  /\ tpc[r] = "new"
            /\ treq' = [treq EXCEPT ![r] = [kind |-> "delete", id |-> pid]]
            /\ IF Len(new) = Len(pb)
               THEN /\ tpc' = [tpc EXCEPT ![r] = "done"]
                    /\ pbLog' = Append(pbLog, [req |-> r, kind |-> "delete", id |-> pid,
                                               status |-> 404])
                    /\ UNCHANGED tlocal
               ELSE /\ tlocal' = [tlocal EXCEPT ![r] = new]
                    /\ tpc' = [tpc EXCEPT ![r] = "open"]
                    /\ UNCHANGED pbLog
            /\ UNCHANGED <<file, file0, vars>>

\* save_phrasebooks: open(PHRASEBOOK_FILE, "w") truncates the file.
PbOpen ==
    \E r \in Requests :
        /\ tpc[r] = "open"
        /\ file' = [state |-> "empty", items |-> <<>>]
        /\ tpc' = [tpc EXCEPT ![r] = "dump"]
        /\ UNCHANGED <<file0, treq, tlocal, pbLog, vars>>

\* save_phrasebooks: json.dump and close, then the handler's response.  On a
\* file another writer wrote to since this one truncated it, the bytes of
\* the two either leave this writer's list or no valid JSON.
PbDump ==
    \E r \in Requests :
        /\ tpc[r] = "dump"
        /\ \E mixed \in BOOLEAN :
              /\ mixed => file.state # "empty"
              /\ file' = IF mixed THEN [state |-> "corrupt", items |-> <<>>]
                         ELSE [state |-> "json", items |-> tlocal[r]]
        /\ tpc' = [tpc EXCEPT ![r] = "done"]
        /\ pbLog' = Append(pbLog, [req |-> r, kind |-> treq[r].kind, id |-> treq[r].id,
                                   status |-> 200])
        /\ UNCHANGED <<file0, treq, tlocal, vars>>

PbNext ==
    \/ PbSave
    \/ PbDelete
    \/ PbOpen
    \/ PbDump

\* The phrasebook routes with requests served concurrently.
PbSpec == Init /\ [][PbNext]_allVars

\* No request is between its load and its response.
NoneInFlight == \A r \in Requests : tpc[r] \in {"new", "done"}

PbSerialNext ==
    \/ NoneInFlight /\ PbSave
    \/ NoneInFlight /\ PbDelete
    \/ PbOpen
    \/ PbDump

\* The phrasebook routes with the requests served one after the other.
PbSerialSpec == Init /\ [][PbSerialNext]_allVars

----------------------------------------------------------------------------
\* Vocabulary of the properties

\* Number of characters of text in the i-th catalog script.
CountOf(i, text) == FindallCount(UNICODE_RANGES[i].pattern, text)

\* text has no character of any catalog script.
NoCatalogChar(text) == \A i \in DOMAIN UNICODE_RANGES : CountOf(i, text) = 0

\* The largest per-script count of text.
MaxCount(text) ==
    CHOOSE m \in 0..Len(text) :
        /\ \E i \in DOMAIN UNICODE_RANGES : CountOf(i, text) = m
        /\ \A i \in DOMAIN UNICODE_RANGES : CountOf(i, text) <= m

\* The earliest declared script among those with the largest count.
EarliestMaxScript(text) ==
    LET first == CHOOSE i \in DOMAIN UNICODE_RANGES :
                    /\ CountOf(i, text) = MaxCount(text)
                    /\ \A j \in 1..(i - 1) : CountOf(j, text) < MaxCount(text)
    IN  UNICODE_RANGES[first].scriptname

\* The scripts with a non-zero count, each with its count, in catalog order.
RECURSIVE BreakdownFrom(_, _)
BreakdownFrom(i, text) ==
    IF i > Len(UNICODE_RANGES) THEN <<>>
    ELSE IF CountOf(i, text) > 0
         THEN <<<<UNICODE_RANGES[i].scriptname, CountOf(i, text)>>>> \o BreakdownFrom(i + 1, text)
         ELSE BreakdownFrom(i + 1, text)

DetectDone == request.route = "/api/detect" /\ pc = "done"
OcrDone == request.route = "/api/ocr" /\ pc = "done"
TranslitDone == request.route = "/api/transliterate" /\ pc = "done"

\* What detect returned to the finished /api/detect request.
DetectResult == detect_script_with_confidence(request.text)

----------------------------------------------------------------------------
\* Properties

\* C1: detect on a text without any catalog character returns script "ISO",
\* topCount 0, totalMatched 0, confidence 0 and an empty breakdown, and
\* /api/detect, which reads all five fields, answers with them.
C1_NoMatchDetectComplete ==
    (DetectDone /\ NoCatalogChar(request.text)) =>
        /\ DetectResult = <<"ISO", 0, 0, <<>>, <<0, 1>>>>
        /\ response.kind = "json"
        /\ response.body = [ok |-> TRUE, script |-> "ISO", top_count |-> 0,
                            total_matched |-> 0, breakdown |-> <<>>,
                            confidence |-> <<0, 1>>]

\* C2: for every text the result of detect has a confidence equal to
\* topCount / totalMatched (0 when totalMatched is 0), 0 <= topCount <=
\* totalMatched, and the confidence is 0 iff totalMatched is 0.
C2_ConfidenceRatio ==
    DetectDone =>
        /\ Len(DetectResult) = 5
        /\ LET top == DetectResult[2]
               total == DetectResult[3]
               conf == DetectResult[5]
           IN  /\ 0 <= top /\ top <= total
               /\ conf[2] > 0
               /\ IF total = 0 THEN conf[1] = 0 ELSE conf[1] * total = top * conf[2]
               /\ 0 <= conf[1] /\ conf[1] <= conf[2]
               /\ (conf[1] = 0) <=> (total = 0)

\* C3 as stated: for every text, detect returns the earliest declared script
\* among those with the maximum character count.
C3_EarliestMaxForEveryText ==
    DetectDone => DetectResult[1] = EarliestMaxScript(request.text)

\* C3 amended: for every text with at least one catalog character, detect
\* returns the earliest declared script among those with the maximum count,
\* with that count as topCount; for a text with none it returns "ISO".
C3_EarliestMaxWhenMatched ==
    DetectDone =>
        IF NoCatalogChar(request.text)
        THEN DetectResult[1] = "ISO"
        ELSE /\ DetectResult[1] = EarliestMaxScript(request.text)
             /\ DetectResult[2] = MaxCount(request.text)
             /\ response.kind = "json"
             /\ response.body.script = EarliestMaxScript(request.text)

\* C3 witness: a tie between two scripts where the text starts with a
\* character of the later declared one, and the earlier declared one wins.
C3_TieWitness ==
    /\ DetectDone
    /\ request.text # <<>>
    /\ \E i, j \in DOMAIN UNICODE_RANGES :
          /\ i < j
          /\ CountOf(i, request.text) = MaxCount(request.text)
          /\ CountOf(j, request.text) = MaxCount(request.text)
          /\ CountOf(j, <<request.text[1]>>) = 1
          /\ MaxCount(request.text) > 0
          /\ response.kind = "json"
          /\ response.body.script = UNICODE_RANGES[i].scriptname

\* A second OCR pass runs only after a first pass whose trimmed text has a
\* character of a script other than Latin, so never after an empty one.
SecondPassOnlyAfterNativeText ==
    (pc = "ocr_pass2" \/ pass2 # "none") =>
        /\ pass1 = "returned"
        /\ txt0 # <<>>
        /\ ~NoCatalogChar(txt0)
        /\ suggested_lang # "eng"

\* C5: if the second OCR pass raises, extract does not raise and returns a
\* successful result with the trimmed first-pass text and language "eng".
C5_SecondPassRaiseKeepsFirst ==
    pass2 = "raised" =>
        /\ pc = "done"
        /\ res.kind = "return"
        /\ res.ok
        /\ res.text = strip(raw0)
        /\ res.used_lang = "eng"
        /\ response.kind = "json"
        /\ response.status = 200
        /\ response.body.ok
        /\ response.body.text = strip(raw0)
        /\ response.body.used_lang = "eng"

\* C5 witness: the second pass raised after a first pass whose raw text
\* needed trimming, and the request was answered.
C5_RaiseWitness ==
    /\ OcrDone
    /\ pass2 = "raised"
    /\ raw0 # strip(raw0)
    /\ response.kind = "json"
    /\ response.body.ok
    /\ ocrCalls = <<"default", suggested_lang>>

\* C6: whenever a backend is configured and the first pass returns any
\* text, extract returns a successful result.
C6_OnlyFirstPassFatal ==
    (OcrDone /\ pytesseract /\ pass1 = "returned") =>
        /\ res.kind = "return"
        /\ res.ok
        /\ response.kind = "json"
        /\ response.body.ok

\* The selection rule on the trimmed pass outputs: the chosen (text, language).
Chosen ==
    IF /\ pass2 = "returned"
       /\ \/ Len(strip(raw1)) > Len(strip(raw0))
          \/ strip(raw1) # <<>> /\ strip(raw0) = <<>>
    THEN <<strip(raw1), SuggestLang(EarliestMaxScript(strip(raw0)))>>
    ELSE <<strip(raw0), "eng">>

\* C7: whenever the first pass returned, the result of extract is (text1,
\* suggested language) exactly when a second pass returned and text1 is
\* longer than text0 or text1 is non-empty and text0 empty; otherwise it is
\* (text0, "eng").
C7_SelectionRule ==
    (OcrDone /\ pass1 = "returned") =>
        /\ res.kind = "return"
        /\ res.ok
        /\ <<res.text, res.used_lang>> = Chosen

\* The selection rule restricted to the runs in which
\* ocr_image_with_smart_lang returns.
SelectionRuleWhenReturned ==
    (OcrDone /\ pass1 = "returned" /\ res.kind = "return") =>
        /\ res.ok
        /\ <<res.text, res.used_lang>> = Chosen

\* C8: whenever extract selected a text, its output reports detectedScript
\* as the script detected on the first-pass text and as breakdown a fresh
\* classification of the final chosen text.
C8_DetectedFromFirstBreakdownFromFinal ==
    (OcrDone /\ res.kind = "return" /\ res.ok) =>
        /\ response.kind = "json"
        /\ response.body.ok
        /\ response.body.text = res.text
        /\ response.body.detected_script = EarliestMaxScript(strip(raw0))
        /\ response.body.breakdown = BreakdownFrom(1, res.text)

\* What /api/ocr reports whenever it answers a selected text.
ReportWhenAnswered ==
    (OcrDone /\ response.kind = "json" /\ response.body.ok) =>
        /\ response.body.detected_script = EarliestMaxScript(strip(raw0))
        /\ response.body.breakdown = BreakdownFrom(1, response.body.text)
        /\ res.breakdown = BreakdownFrom(1, strip(raw0))

\* C9: resolve with hint "ISO" and a non-empty text reaches the backend,
\* with the script detected on the text as source when that is not "ISO"
\* and with "ISO" otherwise.
C9_SentinelHintResolved ==
    (TranslitDone /\ aksha_process /\ request.src = "ISO" /\ request.text # <<>>) =>
        akshaCalls =
            << << IF NoCatalogChar(request.text) THEN "ISO"
                  ELSE EarliestMaxScript(request.text),
                  request.tgt, request.text >> >>

\* The hint "ISO" is resolved as C9 says whenever the text has a catalog
\* character.
SentinelHintResolvedWhenMatched ==
    (TranslitDone /\ aksha_process /\ request.src = "ISO"
        /\ ~NoCatalogChar(request.text)) =>
        akshaCalls = << <<EarliestMaxScript(request.text), request.tgt, request.text>> >>

\* C10: resolve with a hint other than "ISO" hands exactly (sourceHint,
\* targetScript, text) to the backend and returns its output unchanged.
C10_ExplicitHintKept ==
    (TranslitDone /\ aksha_process /\ request.src # "ISO" /\ request.text # <<>>) =>
        /\ akshaCalls = << <<request.src, request.tgt, request.text>> >>
        /\ akshaReply.called
        /\ response.kind = "json"
        /\ IF akshaReply.raised
           THEN response.status = 500 /\ ~response.body.ok
           ELSE response.body = [ok |-> TRUE, result |-> akshaReply.text]

\* C10 witness: a Devanagari hint on a text detected as Tamil reaches the
\* backend as Devanagari, and the backend's output is returned.
C10_WrongHintWitness ==
    /\ TranslitDone
    /\ request.src = "Devanagari"
    /\ ~NoCatalogChar(request.text)
    /\ EarliestMaxScript(request.text) = "Tamil"
    /\ akshaCalls = << <<"Devanagari", request.tgt, request.text>> >>
    /\ response.kind = "json"
    /\ response.body.ok
    /\ response.body.result = akshaReply.text
    /\ akshaReply.text # <<>>

\* C11: within one extract the OCR backend is called at most twice; the
\* first call uses the default language; a second call happens only after
\* the first returned, only when the language suggested for the script
\* detected on the trimmed first-pass text is not the default, and with that
\* language; without a backend no call is made; if the first call raises,
\* an error is reported and there is no second call.
C11_OcrCallOrder ==
    /\ Len(ocrCalls) <= 2
    /\ Len(ocrCalls) >= 1 => (ocrCalls[1] = "default" /\ pass1 # "none")
    /\ Len(ocrCalls) = 2 =>
          /\ pass1 = "returned"
          /\ ~NoCatalogChar(strip(raw0))
          /\ TESS_LANG_SUGGEST[EarliestMaxScript(strip(raw0))] # "eng"
          /\ ocrCalls[2] = TESS_LANG_SUGGEST[EarliestMaxScript(strip(raw0))]
    /\ pc = "ocr_pass2" =>
          /\ ocrCalls = <<"default">>
          /\ pass1 = "returned"
          /\ TESS_LANG_SUGGEST[EarliestMaxScript(strip(raw0))] = suggested_lang
          /\ suggested_lang # "eng"
    /\ ~pytesseract => (ocrCalls = <<>> /\ pc \notin {"ocr_pass1", "ocr_pass2"})
    /\ pass1 = "raised" =>
          /\ ocrCalls = <<"default">>
          /\ pass2 = "none"
          /\ pc = "done"
          /\ response.kind = "json"
          /\ response.status = 500
          /\ ~response.body.ok

\* C11 witness: a finished extract that made both calls, the second with the
\* language suggested for Tamil.
C11_TwoCallsWitness ==
    /\ OcrDone
    /\ ocrCalls = <<"default", "tam">>
    /\ EarliestMaxScript(strip(raw0)) = "Tamil"
    /\ pass2 = "returned"

\* A finished extract whose first call raised.
FirstCallRaisedReached ==
    OcrDone /\ pass1 = "raised" /\ ocrCalls = <<"default">>

----------------------------------------------------------------------------
\* Phrasebook properties

\* The list the responses sent so far account for: every answered save put
\* its record at the front, every answered delete removed its record.
RECURSIVE ExpectedAfter(_, _)
ExpectedAfter(log, items) ==
    IF log = <<>> THEN items
    ELSE LET e == Head(log)
         IN  ExpectedAfter(Tail(log),
                 IF e.status # 200 THEN items
                 ELSE IF e.kind = "save" THEN <<[id |-> e.id]>> \o items
                 ELSE SelectSeq(items, LAMBDA it : it.id # e.id))

AllAnswered == \A r \in Requests : tpc[r] = "done"

\* C12: after any interleaving of save and delete requests, the stored list
\* is exactly the records saved and not deleted, newest first: no answered
\* save is lost and no answered delete is undone.
C12_StoreMatchesResponses ==
    AllAnswered =>
        /\ file.state = "json"
        /\ file.items = ExpectedAfter(pbLog, file0)

\* Between requests served one after the other, the stored list is exactly
\* the records saved and not deleted, newest first.
SerialStoreMatchesResponses ==
    NoneInFlight =>
        /\ file.state = "json"
        /\ file.items = ExpectedAfter(pbLog, file0)

\* A save answered with 200 whose record is not in the stored list although
\* no delete named it.
LostSaveReached ==
    /\ AllAnswered
    /\ file.state = "json"
    /\ \E i \in DOMAIN pbLog :
          /\ pbLog[i].kind = "save"
          /\ pbLog[i].status = 200
          /\ \A k \in DOMAIN file.items : file.items[k].id # pbLog[i].id
          /\ \A j \in DOMAIN pbLog : ~(pbLog[j].kind = "delete" /\ pbLog[j].id = pbLog[i].id)

\* A delete answered with 200 whose record is in the stored list again.
UndoneDeleteReached ==
    /\ AllAnswered
    /\ file.state = "json"
    /\ \E i \in DOMAIN pbLog :
          /\ pbLog[i].kind = "delete"
          /\ pbLog[i].status = 200
          /\ \E k \in DOMAIN file.items : file.items[k].id = pbLog[i].id

====
